---- MODULE Spec2Model ----
(***************************************************************************)
(* froggy: a component storage with deferred reference counting.           *)
(*                                                                         *)
(* One Storage<T> and the handles (Pointer, WeakPointer) taken from it.    *)
(* Slot indices are 0-based as in the source; the vectors data, meta and   *)
(* epoch are sequences, so slot i lives at position i + 1.                 *)
(***************************************************************************)
EXTENDS Integers, Sequences, FiniteSets, Bags, TLC

VARIABLES
    data,       \* StorageInner::data: Vec<T>
    meta,       \* StorageInner::meta: Vec<RefCount>
    free_list,  \* StorageInner::free_list: Vec<PointerData>
    add_ref,    \* Pending::add_ref: Vec<Index>
    sub_ref,    \* Pending::sub_ref: Vec<Index>
    epoch,      \* Pending::epoch: Vec<Epoch>
    strong,     \* bag of the PointerData of the outstanding Pointer<T> values
    weak,       \* set of the PointerData of the outstanding WeakPointer<T> values
    debug,      \* build profile: debug assertions and overflow checks on or off
    panicked,   \* the thread owning the storage has panicked
    lock,       \* holder of the journal mutex (Arc<Mutex<Pending>>)
    pc,         \* position of the thread running sync_pending
    snap,       \* meta and the journal as sync_pending found them on locking
    cursor,     \* the Cursor borrowing the storage, if any: its index and item
    visited,    \* the values of the items the cursor has yielded so far
    STORAGE_UID, \* the process-wide counter the storage ids are taken from
    storage2,   \* a second Storage of the process: its id, length and handles
    packed,     \* a PointerData word, with the fields it was built from
    churn       \* a run of `drop(p.clone())` in the journal: its slot and lengths

vars == <<data, meta, free_list, add_ref, sub_ref, epoch, strong, weak,
          debug, panicked, lock, pc, snap, cursor, visited,
          STORAGE_UID, storage2, packed, churn>>

inner == <<data, meta, free_list>>
journal == <<add_ref, sub_ref, epoch>>
handles == <<strong, weak>>
sync_thread == <<lock, pc, snap>>
walk == <<cursor, visited>>
process == <<STORAGE_UID, storage2>>

\* No PointerData word has been built.
NoPointerData == [made |-> FALSE, word |-> <<>>, index |-> <<>>, epoch |-> 0,
                  storage |-> 0, rewritten |-> FALSE]

\* No run of clones and drops is in the journal.
NoChurn == [index |-> 0, adds |-> 0, subs |-> 0]

\* No second Storage has been constructed.
NoStorage2 == [live |-> FALSE, id |-> 0, len |-> 0, strong |-> {}]

\* No Cursor exists: the storage is not borrowed.
NoCursor == [index |-> 0, item |-> -1, live |-> FALSE, back |-> FALSE]

----------------------------------------------------------------------------
(* Bounds of the exploration.                                               *)

MaxSlots == 2       \* data.len() never grows beyond this
MaxStrong == 2      \* outstanding strong handles
MaxWeak == 1        \* outstanding distinct weak handles
MaxJournal == 2     \* entries in add_ref, and in sub_ref, between two syncs
MaxEpoch == 2       \* sync_pending is not explored past this epoch value
MaxInit == 1        \* from_iter is explored for 0..MaxInit values
MaxFree == 2        \* sync_pending is not explored past this free-list length
MaxStorages == 257  \* storages constructed in the process

Values == {1, 2}    \* the component values T

----------------------------------------------------------------------------
(* Types of src/src/lib.rs.                                                 *)

RefCountBits == 16
EpochBits == 16
StorageIdBits == 8
RefCountMod == 2 ^ RefCountBits
EpochMod == 2 ^ EpochBits
StorageIdMod == 2 ^ StorageIdBits

\* The first storage built in the process: STORAGE_UID starts at 0.
id == 0

\* PointerData::new: the three lanes of the packed word.
PointerData_new(index, ep, storage) ==
    [index |-> index, epoch |-> ep, storage |-> storage]

get_index(pd) == pd.index
get_storage_id(pd) == pd.storage


----------------------------------------------------------------------------
(* Pending.                                                                 *)

\* (mutant) an index beyond the epoch vector reads as epoch 1.
get_epoch_in_One(ep, index) == IF index < Len(ep) THEN ep[index + 1] ELSE 1

\* Pending::get_epoch: *self.epoch.get(index).unwrap_or(&0)
get_epoch_in(ep, index) == IF index < Len(ep) THEN ep[index + 1] ELSE 0

get_epoch(index) == get_epoch_in(epoch, index)

Count(q, i) == Cardinality({k \in 1..Len(q) : q[k] = i})

\* Number of outstanding strong handles whose index is i.
Outstanding(i) ==
    LET hs == {h \in BagToSet(strong) : h.index = i}
        RECURSIVE Sum(_)
        Sum(S) == IF S = {} THEN 0
                  ELSE LET h == CHOOSE x \in S : TRUE
                       IN CopiesIn(h, strong) + Sum(S \ {h})
    IN Sum(hs)

\* PointerData::with_epoch: only the epoch lane is replaced.
with_epoch(pd, ep) == [pd EXCEPT !.epoch = ep]

----------------------------------------------------------------------------
(* Storage::sync_pending, statement by statement.  A sync state is the      *)
(* record [meta, epoch, free_list, panicked] the loops work on.             *)

\* (mutant) the epoch vector is not padded.
PadEpoch_None(ep, n) == ep

\* while pending.epoch.len() < self.inner.data.len() { pending.epoch.push(0) }
PadEpoch(ep, n) ==
    IF Len(ep) < n THEN ep \o [k \in 1..(n - Len(ep)) |-> 0] ELSE ep

\* self.inner.meta[index] += 1
AddRef(st, index) ==
    IF index >= Len(st.meta) THEN [st EXCEPT !.panicked = TRUE]
    ELSE IF st.meta[index + 1] = RefCountMod - 1 /\ debug
         THEN [st EXCEPT !.panicked = TRUE]
         ELSE [st EXCEPT !.meta[index + 1] = (@ + 1) % RefCountMod]

\* (mutant) the sub-ref is drained but the refcount is not decremented.
SubRef_NoDecrement(st, index) == st

\* self.inner.meta[index] -= 1; if it is now 0, epoch[index] += 1 and the
\* slot is pushed on the free list with its new epoch.
SubRef(st, index) ==
    IF index >= Len(st.meta) THEN [st EXCEPT !.panicked = TRUE]
    ELSE IF st.meta[index + 1] = 0 /\ debug
    THEN [st EXCEPT !.panicked = TRUE]
    ELSE LET m == (st.meta[index + 1] - 1) % RefCountMod
             st1 == [st EXCEPT !.meta[index + 1] = m]
         IN IF m # 0 THEN st1
            ELSE IF index >= Len(st.epoch) THEN [st1 EXCEPT !.panicked = TRUE]
            ELSE IF st.epoch[index + 1] = EpochMod - 1 /\ debug
            THEN [st1 EXCEPT !.panicked = TRUE]
            ELSE LET e == (st.epoch[index + 1] + 1) % EpochMod
                 IN [st1 EXCEPT !.epoch[index + 1] = e,
                                !.free_list = Append(@, PointerData_new(index, e, id))]

\* for index in pending.add_ref.drain(..) { ... }
RECURSIVE DrainAdd(_, _)
DrainAdd(st, q) ==
    IF q = <<>> \/ st.panicked THEN st
    ELSE DrainAdd(AddRef(st, Head(q)), Tail(q))

\* let (refs, epoch) = pending.drain_sub(); for index in refs { ... }
RECURSIVE DrainSub(_, _)
DrainSub(st, q) ==
    IF q = <<>> \/ st.panicked THEN st
    ELSE DrainSub(SubRef(st, Head(q)), Tail(q))

\* The whole body of sync_pending applied to the current state.
SyncResult ==
    LET st0 == [meta |-> meta, epoch |-> PadEpoch(epoch, Len(data)),
                free_list |-> free_list, panicked |-> FALSE]
        st1 == DrainAdd(st0, add_ref)
    IN [st |-> DrainSub(st1, sub_ref), add_panicked |-> st1.panicked]

----------------------------------------------------------------------------
(* Construction: Storage::new() and Storage::from_iter(values).             *)

\* Storage::new_impl(data, vec![0; count], vec![0; count]); new() passes three
\* empty vectors.
new_impl(d, m, e) ==
    /\ data = d
    /\ meta = m
    /\ free_list = <<>>
    /\ add_ref = <<>>
    /\ sub_ref = <<>>
    /\ epoch = e
    /\ strong = EmptyBag
    /\ weak = {}
    /\ panicked = FALSE
    /\ lock = "free"
    /\ pc = "idle"
    /\ snap = [meta |-> m, add_ref |-> <<>>, sub_ref |-> <<>>]
    /\ cursor = NoCursor
    /\ visited = <<>>
    /\ STORAGE_UID = id + 1
    /\ storage2 = NoStorage2
    /\ packed = NoPointerData
    /\ churn = NoChurn

Init ==
    /\ debug \in BOOLEAN
    /\ \E count \in 0..MaxInit : \E d \in [1..count -> Values] :
          new_impl(d, [k \in 1..count |-> 0], [k \in 1..count |-> 0])

----------------------------------------------------------------------------
(* Guards shared by the operations.                                         *)

\* (mutant) the journal is pushed to without taking the mutex.
JournalLock_None == TRUE

\* self.pending.lock(): the spin mutex is taken only when nobody holds it.
JournalLock == lock = "free"

\* Operations taking &self or &mut self of the Storage run on the thread that
\* owns it, and only while it is not inside sync_pending and no Cursor holds
\* the storage borrowed.
OwnerIdle == pc = "idle" /\ ~panicked /\ ~cursor.live

RoomForHandle == BagCardinality(strong) < MaxStrong

\* Iter::next with skip_lost: the slots an iterator yields.
IterYields(skip_lost, index) ==
    /\ index < Len(data)
    /\ (~skip_lost \/ meta[index + 1] # 0)

\* Cursor::next: the slots a cursor yields.
CursorYields(skip_lost, index) ==
    /\ index < Len(data)
    /\ (~skip_lost \/ meta[index + 1] # 0)

----------------------------------------------------------------------------
(* Storage operations.                                                      *)

\* (mutant) create takes the oldest free-list entry instead of the newest.
Create_Fifo(value, slots) ==
    /\ OwnerIdle
    /\ RoomForHandle
    /\ IF free_list # <<>>
       THEN LET d == free_list[1]
                i == get_index(d)
            IN IF debug /\ meta[i + 1] # 0
               THEN /\ panicked' = TRUE
                    /\ free_list' = Tail(free_list)
                    /\ UNCHANGED <<data, meta, strong>>
               ELSE /\ free_list' = Tail(free_list)
                    /\ data' = [data EXCEPT ![i + 1] = value]
                    /\ meta' = [meta EXCEPT ![i + 1] = 1]
                    /\ strong' = strong (+) SetToBag({d})
                    /\ UNCHANGED panicked
       ELSE LET i == Len(meta)
            IN /\ i < slots
               /\ data' = Append(data, value)
               /\ meta' = Append(meta, 1)
               /\ strong' = strong (+) SetToBag({PointerData_new(i, 0, id)})
               /\ UNCHANGED <<free_list, panicked>>
    /\ UNCHANGED <<journal, weak, debug, walk, process, packed, churn, sync_thread>>

\* (mutant) create leaves the refcount at 0 and journals an add-ref instead.
Create_Journalled(value, slots) ==
    /\ OwnerIdle
    /\ RoomForHandle
    /\ Len(add_ref) < MaxJournal
    /\ IF free_list # <<>>
       THEN LET d == free_list[Len(free_list)]
                i == get_index(d)
            IN /\ free_list' = SubSeq(free_list, 1, Len(free_list) - 1)
               /\ data' = [data EXCEPT ![i + 1] = value]
               /\ add_ref' = Append(add_ref, i)
               /\ strong' = strong (+) SetToBag({d})
               /\ UNCHANGED <<meta, panicked>>
       ELSE LET i == Len(meta)
            IN /\ i < slots
               /\ data' = Append(data, value)
               /\ meta' = Append(meta, 0)
               /\ add_ref' = Append(add_ref, i)
               /\ strong' = strong (+) SetToBag({PointerData_new(i, 0, id)})
               /\ UNCHANGED <<free_list, panicked>>
    /\ UNCHANGED <<sub_ref, epoch, weak, debug, walk, process, packed, churn, sync_thread>>

\* (mutant) create takes the index of a new slot after pushing the value.
Create_IndexAfterPush(value, slots) ==
    /\ OwnerIdle
    /\ RoomForHandle
    /\ IF free_list # <<>>
       THEN LET d == free_list[Len(free_list)]
                i == get_index(d)
            IN IF debug /\ meta[i + 1] # 0
               THEN /\ panicked' = TRUE
                    /\ free_list' = SubSeq(free_list, 1, Len(free_list) - 1)
                    /\ UNCHANGED <<data, meta, strong>>
               ELSE /\ free_list' = SubSeq(free_list, 1, Len(free_list) - 1)
                    /\ data' = [data EXCEPT ![i + 1] = value]
                    /\ meta' = [meta EXCEPT ![i + 1] = 1]
                    /\ strong' = strong (+) SetToBag({d})
                    /\ UNCHANGED panicked
       ELSE LET i == Len(meta)
            IN /\ i < slots
               /\ data' = Append(data, value)
               /\ meta' = Append(meta, 1)
               /\ strong' = strong (+) SetToBag({PointerData_new(i + 1, 0, id)})
               /\ UNCHANGED <<free_list, panicked>>
    /\ UNCHANGED <<journal, weak, debug, walk, process, packed, churn, sync_thread>>

\* Storage::create(value); data is not grown beyond `slots` values.
Create(value, slots) ==
    /\ OwnerIdle
    /\ RoomForHandle
    /\ IF free_list # <<>>
       THEN LET d == free_list[Len(free_list)]
                i == get_index(d)
            IN IF debug /\ meta[i + 1] # 0
               THEN /\ panicked' = TRUE
                    /\ free_list' = SubSeq(free_list, 1, Len(free_list) - 1)
                    /\ UNCHANGED <<data, meta, strong>>
               ELSE /\ free_list' = SubSeq(free_list, 1, Len(free_list) - 1)
                    /\ data' = [data EXCEPT ![i + 1] = value]
                    /\ meta' = [meta EXCEPT ![i + 1] = 1]
                    /\ strong' = strong (+) SetToBag({d})
                    /\ UNCHANGED panicked
       ELSE LET i == Len(meta)
            IN /\ i < slots
               /\ data' = Append(data, value)
               /\ meta' = Append(meta, 1)
               /\ strong' = strong (+) SetToBag({PointerData_new(i, 0, id)})
               /\ UNCHANGED <<free_list, panicked>>
    /\ UNCHANGED <<journal, weak, debug, walk, process, packed, churn, sync_thread>>

\* Storage::pin(item): the pointer handed out for an iterated item.
pin(index) ==
    /\ JournalLock
    /\ RoomForHandle
    /\ Len(add_ref) < MaxJournal
    /\ add_ref' = Append(add_ref, index)
    /\ strong' = strong (+) SetToBag({PointerData_new(index, get_epoch(index), id)})
    /\ UNCHANGED <<inner, sub_ref, epoch, weak, debug, walk, process, packed, churn, panicked, sync_thread>>

\* storage.pin(&item) for an item of storage.iter()
PinIter(index) ==
    /\ OwnerIdle
    /\ IterYields(TRUE, index)
    /\ pin(index)

\* storage.pin(&item) for an item of storage.iter_all()
PinIterAll(index) ==
    /\ OwnerIdle
    /\ IterYields(FALSE, index)
    /\ pin(index)

\* CursorItem::pin for the item a cursor stands on
CursorPin(skip_lost, index) ==
    /\ OwnerIdle
    /\ JournalLock
    /\ CursorYields(skip_lost, index)
    /\ RoomForHandle
    /\ Len(add_ref) < MaxJournal
    /\ add_ref' = Append(add_ref, index)
    /\ strong' = strong (+)
          SetToBag({with_epoch(PointerData_new(index, 0, id), get_epoch(index))})
    /\ UNCHANGED <<inner, sub_ref, epoch, weak, debug, walk, process, packed, churn, panicked, sync_thread>>

\* The sync results that are explored: epochs up to cap, a free list of at
\* most MaxFree entries, refcounts within MaxStrong of zero on either side.
Explored(st, cap) ==
    /\ \A k \in 1..Len(st.epoch) : st.epoch[k] <= cap
    /\ Len(st.free_list) <= MaxFree
    /\ \A k \in 1..Len(st.meta) :
          st.meta[k] <= MaxStrong \/ st.meta[k] >= RefCountMod - MaxStrong

\* (mutant) sync_pending reads the add-refs without draining them.
SyncPending_KeepAdds(cap) ==
    /\ OwnerIdle
    /\ JournalLock
    /\ LET r == SyncResult
       IN /\ Explored(r.st, cap)
          /\ meta' = r.st.meta
          /\ epoch' = r.st.epoch
          /\ free_list' = r.st.free_list
          /\ panicked' = r.st.panicked
          /\ add_ref' = add_ref
          /\ sub_ref' = IF r.add_panicked THEN sub_ref ELSE <<>>
    /\ UNCHANGED <<data, handles, debug, walk, process, packed, churn, sync_thread>>

\* Storage::sync_pending, from taking the mutex to releasing it.
SyncPending(cap) ==
    /\ OwnerIdle
    /\ JournalLock
    /\ LET r == SyncResult
       IN /\ Explored(r.st, cap)
          /\ meta' = r.st.meta
          /\ epoch' = r.st.epoch
          /\ free_list' = r.st.free_list
          /\ panicked' = r.st.panicked
          /\ add_ref' = <<>>
          /\ sub_ref' = IF r.add_panicked THEN sub_ref ELSE <<>>
    /\ UNCHANGED <<data, handles, debug, walk, process, packed, churn, sync_thread>>

----------------------------------------------------------------------------
(* Handle operations: they need only the shared journal.                    *)

\* (mutant) clone bumps the refcount in the storage instead of journalling.
Clone_Immediate(h) ==
    /\ ~panicked
    /\ JournalLock
    /\ BagIn(h, strong)
    /\ RoomForHandle
    /\ meta' = [meta EXCEPT ![get_index(h) + 1] = (@ + 1) % RefCountMod]
    /\ strong' = strong (+) SetToBag({h})
    /\ UNCHANGED <<data, free_list, journal, weak, debug, walk, process, packed, churn, panicked, sync_thread>>

\* <Pointer as Clone>::clone
Clone(h) ==
    /\ ~panicked
    /\ JournalLock
    /\ BagIn(h, strong)
    /\ RoomForHandle
    /\ Len(add_ref) < MaxJournal
    /\ add_ref' = Append(add_ref, get_index(h))
    /\ strong' = strong (+) SetToBag({h})
    /\ UNCHANGED <<inner, sub_ref, epoch, weak, debug, walk, process, packed, churn, panicked, sync_thread>>

\* (mutant) drop puts its index at the front of sub_ref.
Drop_Front(h) ==
    /\ ~panicked
    /\ JournalLock
    /\ BagIn(h, strong)
    /\ Len(sub_ref) < MaxJournal
    /\ sub_ref' = <<get_index(h)>> \o sub_ref
    /\ strong' = strong (-) SetToBag({h})
    /\ UNCHANGED <<inner, add_ref, epoch, weak, debug, walk, process, packed, churn, panicked, sync_thread>>

\* <Pointer as Drop>::drop
Drop(h) ==
    /\ ~panicked
    /\ JournalLock
    /\ BagIn(h, strong)
    /\ Len(sub_ref) < MaxJournal
    /\ sub_ref' = Append(sub_ref, get_index(h))
    /\ strong' = strong (-) SetToBag({h})
    /\ UNCHANGED <<inner, add_ref, epoch, weak, debug, walk, process, packed, churn, panicked, sync_thread>>

\* (mutant) downgrade journals an add-ref, as a strong clone does.
Downgrade_AddRef(h) ==
    /\ ~panicked
    /\ JournalLock
    /\ BagIn(h, strong)
    /\ h \notin weak
    /\ Cardinality(weak) < MaxWeak
    /\ Len(add_ref) < MaxJournal
    /\ add_ref' = Append(add_ref, get_index(h))
    /\ weak' = weak \cup {h}
    /\ UNCHANGED <<inner, sub_ref, epoch, strong, debug, walk, process, packed, churn,
                   panicked, sync_thread>>

\* Pointer::downgrade
Downgrade(h) ==
    /\ ~panicked
    /\ BagIn(h, strong)
    /\ h \notin weak
    /\ Cardinality(weak) < MaxWeak
    /\ weak' = weak \cup {h}
    /\ UNCHANGED <<inner, journal, strong, debug, walk, process, packed, churn, panicked, sync_thread>>

\* A WeakPointer going out of scope (WeakPointer has no Drop impl).
DropWeak(w) ==
    /\ ~panicked
    /\ w \in weak
    /\ weak' = weak \ {w}
    /\ UNCHANGED <<inner, journal, strong, debug, walk, process, packed, churn, panicked, sync_thread>>

\* The test of WeakPointer::upgrade, made under the journal mutex.
UpgradeOk(w) == get_epoch(get_index(w)) = w.epoch

\* (mutant) upgrade journals the add-ref before it compares the epochs.
Upgrade_PushFirst(w) ==
    /\ ~panicked
    /\ JournalLock
    /\ w \in weak
    /\ Len(add_ref) < MaxJournal
    /\ add_ref' = Append(add_ref, get_index(w))
    /\ IF ~UpgradeOk(w)
       THEN UNCHANGED strong
       ELSE /\ RoomForHandle
            /\ strong' = strong (+) SetToBag({w})
    /\ UNCHANGED <<inner, sub_ref, epoch, weak, debug, walk, process, packed, churn,
                   panicked, sync_thread>>

\* WeakPointer::upgrade
Upgrade(w) ==
    /\ ~panicked
    /\ JournalLock
    /\ w \in weak
    /\ IF ~UpgradeOk(w)
       THEN UNCHANGED <<add_ref, strong>>    \* Err(DeadComponentError)
       ELSE /\ RoomForHandle
            /\ Len(add_ref) < MaxJournal
            /\ add_ref' = Append(add_ref, get_index(w))
            /\ strong' = strong (+) SetToBag({w})
    /\ UNCHANGED <<inner, sub_ref, epoch, weak, debug, walk, process, packed, churn, panicked, sync_thread>>

----------------------------------------------------------------------------
(* The program: one storage, every operation in any order.                  *)

Slots == 0..(MaxSlots - 1)

Next ==
    \/ \E v \in Values : Create(v, MaxSlots)
    \/ \E i \in Slots : PinIter(i)
    \/ \E i \in Slots : PinIterAll(i)
    \/ \E b \in BOOLEAN, i \in Slots : CursorPin(b, i)
    \/ SyncPending(MaxEpoch)
    \/ \E h \in BagToSet(strong) : Clone(h)
    \/ \E h \in BagToSet(strong) : Drop(h)
    \/ \E h \in BagToSet(strong) : Downgrade(h)
    \/ \E w \in weak : DropWeak(w)
    \/ \E w \in weak : Upgrade(w)

Spec == Init /\ [][Next]_vars

----------------------------------------------------------------------------
(* Creates and drops only, as in the first universal property of the spec.  *)

NextCreateDrop ==
    \/ \E v \in Values : Create(v, MaxSlots)
    \/ \E h \in BagToSet(strong) : Drop(h)
    \/ SyncPending(MaxEpoch)

SpecCreateDrop == Init /\ [][NextCreateDrop]_vars

SlotsOf(m) == 0..(Len(m) - 1)

\* C1: after any sequence of creates and strong-handle drops, a sync_pending
\* leaves, for every slot i, meta[i] equal to the number of strong handles to
\* i that are still outstanding.
C1_SyncCountsHandles ==
    [][SyncPending(MaxEpoch) =>
          \A i \in SlotsOf(meta') : meta'[i + 1] = Outstanding(i)']_vars

\* A sync has freed one slot while another is still held by one handle.
C1_Witness ==
    /\ sub_ref = <<>>
    /\ free_list # <<>>
    /\ \E i \in SlotsOf(meta) : meta[i + 1] = 1 /\ Outstanding(i) = 1
    /\ \E i \in SlotsOf(meta) : meta[i + 1] = 0 /\ Outstanding(i) = 0

----------------------------------------------------------------------------
(* Claims about the whole program (Spec).                                   *)

\* Number of free-list entries whose index is i.
FreeCount(fl, i) == Cardinality({k \in 1..Len(fl) : fl[k].index = i})

\* C2: while a strong handle to slot i is outstanding, no step (create, clone,
\* drop, downgrade, upgrade, pin, sync_pending) overwrites data[i] or pushes
\* slot i on the free list.
C2_StrongKeepsSlot ==
    [][\A i \in SlotsOf(data) :
          Outstanding(i) > 0 =>
             /\ data'[i + 1] = data[i + 1]
             /\ FreeCount(free_list', i) <= FreeCount(free_list, i)]_vars

\* A sync_pending has run since the last journal push.
Synced == add_ref = <<>> /\ sub_ref = <<>>

\* C3: once every strong handle to the slot of a weak handle is dropped and
\* sync_pending has run, upgrade returns DeadComponentError, and a weak handle
\* whose upgrade fails keeps failing in every later state.
C3_DeadStaysDead ==
    /\ [](\A w \in weak :
            (Synced /\ Outstanding(get_index(w)) = 0) => ~UpgradeOk(w))
    /\ [][\A w \in weak \cap weak' : ~UpgradeOk(w) => ~UpgradeOk(w)']_vars

\* C4: a weak handle upgrades successfully in every state in which a strong
\* handle equal to the one it was taken from is still outstanding.
C4_UpgradesWhileStrong ==
    \A w \in weak : BagIn(w, strong) => UpgradeOk(w)

\* C5: every free-list entry (i, e) has meta[i] = 0 and e = epoch[i].
C5_FreeListVacant ==
    \A k \in 1..Len(free_list) :
       LET d == free_list[k]
       IN /\ meta[get_index(d) + 1] = 0
          /\ d.epoch = get_epoch(get_index(d))

\* The refcount of slot i once the journal as it stands is applied.
Net(i) == meta[i + 1] + Count(add_ref, i) - Count(sub_ref, i)

\* C6: sync_pending applies the add-refs before the sub-refs, so it pushes a
\* slot on the free list and bumps its epoch only if the slot's net refcount
\* after the whole batch is zero.
C6_FreedOnlyAtNetZero ==
    [][SyncPending(MaxEpoch) =>
          \A i \in SlotsOf(meta) :
             (\/ FreeCount(free_list', i) > FreeCount(free_list, i)
              \/ get_epoch(i)' # get_epoch(i))
             => (Net(i) = 0 /\ meta'[i + 1] = 0)]_vars

\* C7: an existing epoch value changes only in a sync_pending step, by exactly
\* one, for a slot that the step decrements to zero and pushes on the free
\* list; no other operation changes an existing epoch value.
C7_EpochBumpedOnlyAtZero ==
    [][\A k \in 1..Len(epoch) :
          epoch'[k] # epoch[k] =>
             /\ SyncPending(EpochMod)
             /\ epoch'[k] = epoch[k] + 1
             /\ Count(sub_ref, k - 1) > 0
             /\ free_list'[Len(free_list')] \in
                   {PointerData_new(i, epoch'[i + 1], id) : i \in SlotsOf(meta)}
             /\ FreeCount(free_list', k - 1) = FreeCount(free_list, k - 1) + 1]_vars

----------------------------------------------------------------------------
(* One slot recycled again and again: the life of the Epoch counter.        *)

\* Storage::new()
InitRecycle ==
    /\ debug \in BOOLEAN
    /\ new_impl(<<>>, <<>>, <<>>)

\* Weak handles are taken from the first incarnations of the slot only.
DowngradeEarly(h) ==
    /\ h.epoch <= MaxEpoch
    /\ Downgrade(h)

NextRecycle ==
    \/ Create(1, 1)
    \/ \E h \in BagToSet(strong) : Drop(h)
    \/ SyncPending(EpochMod)
    \/ \E h \in BagToSet(strong) : DowngradeEarly(h)

SpecRecycle == InitRecycle /\ [][NextRecycle]_vars

\* C8: the epoch of a slot never goes back to an earlier value.
C8_EpochNeverReused ==
    [][\A k \in 1..Len(epoch) : epoch'[k] >= epoch[k]]_vars

\* C9: cloning a strong handle appends exactly its index to add_ref, dropping
\* one appends exactly its index to sub_ref, and neither changes data, meta,
\* the free list or the epoch vector.
C9_CloneDropFrame ==
    [][\A h \in BagToSet(strong) :
          /\ Clone(h) =>
                /\ add_ref' = Append(add_ref, get_index(h))
                /\ UNCHANGED <<sub_ref, data, meta, free_list, epoch>>
          /\ Drop(h) =>
                /\ sub_ref' = Append(sub_ref, get_index(h))
                /\ UNCHANGED <<add_ref, data, meta, free_list, epoch>>]_vars

\* A handle has been cloned and one dropped since the last sync: the journal
\* holds both entries while meta still shows the count of the last sync.
C9_Witness ==
    /\ add_ref # <<>>
    /\ sub_ref # <<>>
    /\ free_list # <<>>
    /\ \E h \in BagToSet(strong) :
          /\ CopiesIn(h, strong) = 2
          /\ meta[get_index(h) + 1] = 1
          /\ add_ref[Len(add_ref)] = get_index(h)

----------------------------------------------------------------------------
(* sync_pending step by step, with handle operations on other threads.      *)

\* let mut pending = self.pending.lock();
SyncLock ==
    /\ OwnerIdle
    /\ JournalLock
    /\ Explored(SyncResult.st, MaxEpoch)
    /\ lock' = "sync"
    /\ pc' = "pad"
    /\ snap' = [meta |-> meta, add_ref |-> add_ref, sub_ref |-> sub_ref]
    /\ UNCHANGED <<inner, journal, handles, debug, walk, process, packed, churn, panicked>>

\* while pending.epoch.len() < self.inner.data.len() { pending.epoch.push(0) }
SyncPad ==
    /\ pc = "pad"
    /\ epoch' = PadEpoch(epoch, Len(data))
    /\ pc' = "add"
    /\ UNCHANGED <<inner, add_ref, sub_ref, handles, debug, walk, process, packed, churn, panicked, lock, snap>>

SyncState == [meta |-> meta, epoch |-> epoch, free_list |-> free_list,
              panicked |-> FALSE]

\* one turn of: for index in pending.add_ref.drain(..) { meta[index] += 1 }
\* A panic unwinds: the Drain empties its vector and the guard is dropped.
SyncAdd ==
    /\ pc = "add"
    /\ ~panicked
    /\ IF add_ref # <<>>
       THEN LET st == AddRef(SyncState, Head(add_ref))
            IN /\ meta' = st.meta
               /\ panicked' = st.panicked
               /\ add_ref' = IF st.panicked THEN <<>> ELSE Tail(add_ref)
               /\ lock' = IF st.panicked THEN "free" ELSE lock
               /\ UNCHANGED pc
       ELSE /\ pc' = "sub"
            /\ UNCHANGED <<meta, panicked, add_ref, lock>>
    /\ UNCHANGED <<data, free_list, sub_ref, epoch, handles, debug, walk, process, packed, churn, snap>>

\* one turn of: for index in refs { meta[index] -= 1; ... }
SyncSub ==
    /\ pc = "sub"
    /\ ~panicked
    /\ sub_ref # <<>>
    /\ LET st == SubRef(SyncState, Head(sub_ref))
       IN /\ meta' = st.meta
          /\ epoch' = st.epoch
          /\ free_list' = st.free_list
          /\ panicked' = st.panicked
          /\ sub_ref' = IF st.panicked THEN <<>> ELSE Tail(sub_ref)
          /\ lock' = IF st.panicked THEN "free" ELSE lock
    /\ UNCHANGED <<data, add_ref, handles, debug, walk, process, packed, churn, pc, snap>>

\* the end of sync_pending: the guard is dropped and the mutex released.
SyncUnlock ==
    /\ pc = "sub"
    /\ ~panicked
    /\ sub_ref = <<>>
    /\ lock' = "free"
    /\ pc' = "idle"
    /\ UNCHANGED <<inner, journal, handles, debug, walk, process, packed, churn, panicked, snap>>

NextConc ==
    \/ \E v \in Values : Create(v, MaxSlots)
    \/ \E i \in Slots : PinIterAll(i)
    \/ \E h \in BagToSet(strong) : Clone(h)
    \/ \E h \in BagToSet(strong) : Drop(h)
    \/ SyncLock
    \/ SyncPad
    \/ SyncAdd
    \/ SyncSub
    \/ SyncUnlock

SpecConc == Init /\ [][NextConc]_vars

IsPrefix(p, q) == Len(p) <= Len(q) /\ SubSeq(q, 1, Len(p)) = p

\* C10: when sync_pending releases the mutex, every entry that was in the
\* journal when it took the mutex has been applied to meta exactly once and
\* add_ref and sub_ref are empty; outside sync_pending a journal entry stays
\* in the journal until the next sync takes the mutex.
C10_SyncDrainsOnce ==
    [][/\ SyncUnlock =>
             /\ add_ref = <<>>
             /\ sub_ref = <<>>
             /\ \A i \in SlotsOf(meta) :
                   meta[i + 1] = (snap.meta[i + 1] + Count(snap.add_ref, i)
                                     - Count(snap.sub_ref, i)) % RefCountMod
       /\ (pc = "idle" /\ ~SyncLock) =>
             (IsPrefix(add_ref, add_ref') /\ IsPrefix(sub_ref, sub_ref'))]_vars

\* sync_pending is about to release the mutex after draining a journal that
\* held an add-ref and a sub-ref.
C10_Witness ==
    /\ pc = "sub"
    /\ sub_ref = <<>>
    /\ snap.add_ref # <<>>
    /\ snap.sub_ref # <<>>
    /\ meta # snap.meta

----------------------------------------------------------------------------
(* Weak handles upgraded on other threads while the owner creates, the      *)
(* handles are dropped and sync_pending runs step by step.                  *)

NextUpgrade ==
    \/ \E v \in Values : Create(v, MaxSlots)
    \/ \E h \in BagToSet(strong) : Drop(h)
    \/ \E h \in BagToSet(strong) : Downgrade(h)
    \/ \E w \in weak : Upgrade(w)
    \/ SyncLock
    \/ SyncPad
    \/ SyncAdd
    \/ SyncSub
    \/ SyncUnlock

SpecUpgrade == Init /\ [][NextUpgrade]_vars

\* C11: upgrade compares the epoch and pushes its add-ref under the journal
\* mutex, so however an upgrade interleaves with the drop of the last strong
\* handle and a sync_pending, a handle it returned has, once a sync has
\* drained its add-ref, a slot with meta > 0 that is not on the free list.
C11_UpgradeAtomic ==
    (pc = "idle" /\ add_ref = <<>>) =>
        \A h \in BagToSet(strong) :
            /\ meta[get_index(h) + 1] > 0
            /\ FreeCount(free_list, get_index(h)) = 0

\* The last sync drained the add-ref of an upgrade and the sub-ref of a drop
\* of the same slot, and the one handle left keeps the slot.
C11_Witness ==
    /\ pc = "idle"
    /\ Synced
    /\ \E w \in weak :
          /\ snap.add_ref = <<get_index(w)>>
          /\ snap.sub_ref = <<get_index(w)>>
          /\ CopiesIn(w, strong) = 1
          /\ meta[get_index(w) + 1] = 1
          /\ UpgradeOk(w)

----------------------------------------------------------------------------
(* The contract of Storage::create.                                         *)

\* C12: with a non-empty free list, create pops the last free-list entry (i, e)
\* and, its debug assertion meta[i] = 0 passing or being compiled out, writes
\* the value at index i, sets meta[i] to 1 and returns a handle equal to the
\* popped entry, leaving data.len() unchanged; with an empty free list it
\* appends the value and meta 1 at index data.len() and returns a handle with
\* epoch 0, growing data and meta by exactly one.
C12_CreateReusesLifo ==
    [][\A v \in Values :
          Create(v, MaxSlots) =>
             IF free_list # <<>>
             THEN LET d == free_list[Len(free_list)]
                  IN /\ free_list' = SubSeq(free_list, 1, Len(free_list) - 1)
                     /\ Len(data') = Len(data)
                     /\ IF debug /\ meta[d.index + 1] # 0
                        THEN panicked' /\ UNCHANGED <<data, meta, strong>>
                        ELSE /\ data' = [data EXCEPT ![d.index + 1] = v]
                             /\ meta' = [meta EXCEPT ![d.index + 1] = 1]
                             /\ strong' = strong (+) SetToBag({d})
             ELSE /\ data' = Append(data, v)
                  /\ meta' = Append(meta, 1)
                  /\ strong' = strong (+)
                        SetToBag({[index |-> Len(data), epoch |-> 0, storage |-> id]})
                  /\ free_list' = <<>>]_vars

\* A slot that was freed (its epoch is past 0) is no longer on the free list
\* and is held by the handle a create returned for it, while an older entry
\* is still on the free list.
C12_Witness ==
    /\ ~panicked
    /\ Len(data) = 2
    /\ \E h \in BagToSet(strong) :
          /\ h.epoch >= 1
          /\ h.epoch = get_epoch(get_index(h))
          /\ FreeCount(free_list, get_index(h)) = 0
          /\ meta[get_index(h) + 1] = 1
          /\ \E k \in 1..Len(free_list) : free_list[k].index # get_index(h)

----------------------------------------------------------------------------
(* Reclamation of the slots whose last handle has dropped.                  *)

\* C13: a sync_pending that drains a drop of slot i while no strong handle to
\* i is outstanding leaves meta[i] = 0 with i on the free list; an entry
\* leaves the free list only by a create that pops it, and that create
\* writes its value at index i without growing the data array.
C13_DroppedSlotReclaimed ==
    [][/\ SyncPending(MaxEpoch) =>
             \A i \in SlotsOf(meta) :
                (Count(sub_ref, i) > 0 /\ Outstanding(i) = 0) =>
                   (panicked' \/ (meta'[i + 1] = 0 /\ FreeCount(free_list', i) >= 1))
       /\ \A i \in SlotsOf(meta) :
             FreeCount(free_list', i) < FreeCount(free_list, i) =>
                /\ free_list[Len(free_list)].index = i
                /\ \E v \in Values :
                      /\ Create(v, MaxSlots)
                      /\ panicked' \/ (data'[i + 1] = v /\ Len(data') = Len(data))]_vars

----------------------------------------------------------------------------
(* Iteration.  An iterator borrows the storage, so a whole walk sees one    *)
(* state of data and meta.                                                  *)

\* (mutant) the refcount test is dropped: lost slots are yielded too.
RECURSIVE Iter_next_NoSkip(_, _)
Iter_next_NoSkip(skip_lost, index) ==
    IF index >= Len(data)
    THEN [some |-> FALSE, item |-> index, index |-> index]
    ELSE [some |-> TRUE, item |-> index, index |-> index + 1]

\* Iter::next: loop { let id = self.index; if id >= data.len() { return None }
\* self.index += 1; if !self.skip_lost || meta[id] != 0 { return Some(id) } }
RECURSIVE Iter_next(_, _)
Iter_next(skip_lost, index) ==
    IF index >= Len(data)
    THEN [some |-> FALSE, item |-> index, index |-> index]
    ELSE IF ~skip_lost \/ meta[index + 1] # 0
         THEN [some |-> TRUE, item |-> index, index |-> index + 1]
         ELSE Iter_next(skip_lost, index + 1)

\* The items of next() called until it returns None.
RECURSIVE IterCollect(_, _)
IterCollect(skip_lost, index) ==
    LET r == Iter_next(skip_lost, index)
    IN IF r.some THEN <<r.item>> \o IterCollect(skip_lost, r.index) ELSE <<>>

\* Storage::iter: Iter { skip_lost: true, index: 0 }
iter == IterCollect(TRUE, 0)

\* Storage::iter_all: Iter { skip_lost: false, index: 0 }
iter_all == IterCollect(FALSE, 0)

\* IterMut::next over the zipped data and meta iterators: the positions whose
\* refcount is not zero, front to back.
RECURSIVE IterMut_collect(_, _)
IterMut_collect(d, m) ==
    IF d = <<>> \/ m = <<>> THEN <<>>
    ELSE (IF Head(m) # 0 THEN <<Len(data) - Len(d)>> ELSE <<>>)
            \o IterMut_collect(Tail(d), Tail(m))

\* Storage::iter_mut: IterMut { data: data.iter_mut(), meta: meta.iter() }
iter_mut == IterMut_collect(data, meta)

\* Storage::iter_all_mut: self.inner.data.iter_mut()
iter_all_mut == [k \in 1..Len(data) |-> k - 1]

Ascending(q) == \A j, k \in 1..Len(q) : j < k => q[j] < q[k]

Range(q) == {q[k] : k \in 1..Len(q)}

\* C14: iter and iter_mut yield exactly the slots with meta > 0, each once, in
\* increasing index order; iter_all and iter_all_mut yield every slot
\* 0..data.len()-1 in increasing order, so iter_all().count() = data.len().
C14_IterYieldsLive ==
    LET live == {i \in SlotsOf(data) : meta[i + 1] > 0}
    IN /\ Ascending(iter) /\ Range(iter) = live
       /\ Ascending(iter_mut) /\ Range(iter_mut) = live
       /\ Ascending(iter_all) /\ Range(iter_all) = SlotsOf(data)
       /\ Ascending(iter_all_mut) /\ Range(iter_all_mut) = SlotsOf(data)
       /\ Len(iter_all) = Len(data)

\* A lost slot lies before a live one: iter skips the first and yields the
\* second, iter_all yields both.
C14_Witness ==
    /\ Len(data) = 2
    /\ meta[1] = 0
    /\ meta[2] > 0
    /\ iter = <<1>>
    /\ iter_all = <<0, 1>>

----------------------------------------------------------------------------
(* A storage collected from an iterator of MaxSlots values.                 *)

\* (mutant) from_iter marks the collected values as referenced.
InitFromIter_Live ==
    /\ debug \in BOOLEAN
    /\ \E d \in [1..MaxSlots -> Values] :
          new_impl(d, [k \in 1..MaxSlots |-> 1], [k \in 1..MaxSlots |-> 0])

\* Storage::from_iter: new_impl(data, vec![0; count], vec![0; count])
InitFromIter ==
    /\ debug \in BOOLEAN
    /\ \E d \in [1..MaxSlots -> Values] :
          new_impl(d, [k \in 1..MaxSlots |-> 0], [k \in 1..MaxSlots |-> 0])

NextFromIter ==
    \/ \E v \in Values : Create(v, MaxSlots)
    \/ \E i \in Slots : PinIter(i)
    \/ \E i \in Slots : PinIterAll(i)
    \/ \E b \in BOOLEAN, i \in Slots : CursorPin(b, i)
    \/ \E h \in BagToSet(strong) : Drop(h)
    \/ SyncPending(MaxEpoch)

SpecFromIter == InitFromIter /\ [][NextFromIter]_vars

\* A collected slot that no sync has made live yet.
Untouched(i) ==
    /\ meta[i + 1] = 0
    /\ get_epoch(i) = 0
    /\ FreeCount(free_list, i) = 0

\* C15: a storage built by from_iter over n values holds the n values with
\* meta = 0 each, so iter() yields nothing and iter_all() yields all n; such a
\* slot becomes visible to iter() only in a sync_pending that drains the
\* add-ref of a handle pinned onto it.
C15_FromIterHidden ==
    /\ (/\ Len(data) = MaxSlots
        /\ \A i \in Slots : data[i + 1] \in Values /\ meta[i + 1] = 0
        /\ iter = <<>>
        /\ iter_all = [k \in 1..MaxSlots |-> k - 1])
    /\ [][\A i \in Slots :
             (Untouched(i) /\ i \in Range(iter)') =>
                /\ SyncPending(MaxEpoch)
                /\ Count(add_ref, i) > 0
                /\ Outstanding(i) + Count(sub_ref, i) > 0]_vars

\* A collected slot has been pinned and synced: iter() yields it, and only
\* it.
C15_Witness ==
    /\ Synced
    /\ get_epoch(0) = 0
    /\ meta[1] = 1
    /\ Outstanding(0) = 1
    /\ free_list = <<>>
    /\ iter = <<0>>
    /\ Len(iter_all) = MaxSlots

----------------------------------------------------------------------------
(* The streaming cursor.  A Cursor stands at an index k in 0..data.len();   *)
(* next moves forward to the next slot whose meta is not zero, prev moves   *)
(* backward to the previous one.                                            *)

\* (mutant) prev returns the slot before the index whatever its refcount.
RECURSIVE Cursor_prev_NoSkip(_)
Cursor_prev_NoSkip(index) ==
    IF index = 0
    THEN [some |-> FALSE, item |-> -1, index |-> 0]
    ELSE [some |-> TRUE, item |-> index - 1, index |-> index - 1]

\* (mutant) next returns the slot at the index whatever its refcount.
RECURSIVE Cursor_next_NoSkip(_)
Cursor_next_NoSkip(index) ==
    IF index >= Len(data)
    THEN [some |-> FALSE, item |-> -1, index |-> index]
    ELSE [some |-> TRUE, item |-> index, index |-> index + 1]

\* Cursor::next from position index: the item returned, if any, and the new
\* position.
RECURSIVE Cursor_next(_)
Cursor_next(index) ==
    IF index >= Len(data)
    THEN [some |-> FALSE, item |-> -1, index |-> index]
    ELSE IF meta[index + 1] # 0
         THEN [some |-> TRUE, item |-> index, index |-> index + 1]
         ELSE Cursor_next(index + 1)

\* Cursor::prev from position index.
RECURSIVE Cursor_prev(_)
Cursor_prev(index) ==
    IF index = 0
    THEN [some |-> FALSE, item |-> -1, index |-> 0]
    ELSE IF meta[index] # 0
         THEN [some |-> TRUE, item |-> index - 1, index |-> index - 1]
         ELSE Cursor_prev(index - 1)

\* The items of next() called until it returns None.
RECURSIVE CursorForward(_)
CursorForward(index) ==
    LET r == Cursor_next(index)
    IN IF r.some THEN <<r.item>> \o CursorForward(r.index) ELSE <<>>

\* The items of prev() called until it returns None.
RECURSIVE CursorBackward(_)
CursorBackward(index) ==
    LET r == Cursor_prev(index)
    IN IF r.some THEN <<r.item>> \o CursorBackward(r.index) ELSE <<>>

Reverse(q) == [k \in 1..Len(q) |-> q[Len(q) + 1 - k]]

----------------------------------------------------------------------------
(* The cursor walk of the test `cursor`: a storage collected from           *)
(* [5, 7, 4, 6, 7], walked forward to the end and then backward.            *)

TestData == <<5, 7, 4, 6, 7>>

\* let mut storage: Storage<_> = data.iter().cloned().collect();
InitCursor ==
    /\ debug \in BOOLEAN
    /\ new_impl(TestData, [k \in 1..Len(TestData) |-> 0],
                [k \in 1..Len(TestData) |-> 0])

\* storage.pin(&item) for the items of one pass over storage.iter_all(), so
\* in increasing index order; a slot is pinned this way once.
PinPass(index) ==
    /\ OwnerIdle
    /\ JournalLock
    /\ IterYields(FALSE, index)
    /\ Outstanding(index) = 0
    /\ get_epoch(index) = 0
    /\ IF add_ref = <<>> THEN TRUE ELSE add_ref[Len(add_ref)] < index
    /\ add_ref' = Append(add_ref, index)
    /\ strong' = strong (+) SetToBag({PointerData_new(index, get_epoch(index), id)})
    /\ UNCHANGED <<inner, sub_ref, epoch, weak, debug, walk, process, packed, churn, panicked, sync_thread>>

\* Storage::cursor: Cursor { index: 0, .. }
Storage_cursor ==
    /\ OwnerIdle
    /\ cursor' = [index |-> 0, item |-> -1, live |-> TRUE, back |-> FALSE]
    /\ visited' = <<>>
    /\ UNCHANGED <<inner, journal, handles, debug, process, packed, churn, panicked,
                   sync_thread>>

\* Storage::cursor_end: Cursor { index: data.len(), .. }
Storage_cursor_end ==
    /\ OwnerIdle
    /\ cursor' = [index |-> Len(data), item |-> -1, live |-> TRUE, back |-> TRUE]
    /\ visited' = <<>>
    /\ UNCHANGED <<inner, journal, handles, debug, process, packed, churn, panicked,
                   sync_thread>>

\* cursor.next(); the walk goes forward until it first goes backward.
CursorNext ==
    /\ cursor.live
    /\ ~cursor.back
    /\ cursor.index < Len(data) \/ cursor.item # -1
    /\ LET r == Cursor_next(cursor.index)
       IN /\ cursor' = [cursor EXCEPT !.index = r.index, !.item = r.item]
          /\ visited' = IF r.some THEN Append(visited, data[r.item + 1])
                        ELSE visited
    /\ UNCHANGED <<inner, journal, handles, debug, process, packed, churn, panicked,
                   sync_thread>>

\* cursor.prev(), once next has returned None or from cursor_end.
CursorPrev ==
    /\ cursor.live
    /\ cursor.back \/ (cursor.index = Len(data) /\ cursor.item = -1)
    /\ cursor.index > 0 \/ cursor.item # -1
    /\ LET r == Cursor_prev(cursor.index)
       IN /\ cursor' = [cursor EXCEPT !.index = r.index, !.item = r.item,
                                     !.back = TRUE]
          /\ visited' = IF r.some
                        THEN IF cursor.back THEN Append(visited, data[r.item + 1])
                             ELSE <<data[r.item + 1]>>
                        ELSE IF cursor.back THEN visited ELSE <<>>
    /\ UNCHANGED <<inner, journal, handles, debug, process, packed, churn, panicked,
                   sync_thread>>

\* item.pin() for the item the cursor stands on; beyond the handle that keeps
\* it live, an item is pinned once.
CursorItem_pin ==
    /\ cursor.live
    /\ cursor.item # -1
    /\ JournalLock
    /\ Outstanding(cursor.item) <= 1
    /\ add_ref' = Append(add_ref, cursor.item)
    /\ strong' = strong (+)
          SetToBag({with_epoch(PointerData_new(cursor.item, 0, id),
                               get_epoch(cursor.item))})
    /\ UNCHANGED <<inner, sub_ref, epoch, weak, debug, walk, process, packed, churn, panicked, sync_thread>>

\* The cursor goes out of scope: the borrow of the storage ends.
CursorEnd ==
    /\ cursor.live
    /\ cursor' = NoCursor
    /\ visited' = <<>>
    /\ UNCHANGED <<inner, journal, handles, debug, process, packed, churn, panicked,
                   sync_thread>>

NextCursor ==
    \/ \E i \in SlotsOf(data) : PinPass(i)
    \/ SyncPending(MaxEpoch)
    \/ Storage_cursor
    \/ Storage_cursor_end
    \/ CursorNext
    \/ CursorPrev
    \/ CursorItem_pin
    \/ CursorEnd

SpecCursor == InitCursor /\ [][NextCursor]_vars

\* next has returned None: the forward walk is over.
ForwardDone ==
    /\ cursor.live
    /\ ~cursor.back
    /\ cursor.index = Len(data)
    /\ cursor.item = -1

\* prev has returned None: the backward walk from the end is over.
BackwardDone ==
    /\ cursor.live
    /\ cursor.back
    /\ cursor.index = 0
    /\ cursor.item = -1

NothingPinned ==
    /\ strong = EmptyBag
    /\ add_ref = <<>>
    /\ \A i \in SlotsOf(meta) : meta[i + 1] = 0

AllLive == \A i \in SlotsOf(meta) : meta[i + 1] # 0

\* The values of the slots iter() yields, in its order.
LiveValues == [k \in 1..Len(iter) |-> data[iter[k] + 1]]

----------------------------------------------------------------------------
(* Storage::split and the slices it returns.                                *)

\* (mutant) the right slice is tagged with the offset of the split point.
split_RightOffByOne(offset) ==
    LET sid == get_storage_id(offset)
        index == get_index(offset)
    IN [left |-> [slice |-> SubSeq(data, 1, index),
                  offset |-> PointerData_new(0, 0, sid)],
        cur |-> data[index + 1],
        right |-> [slice |-> SubSeq(data, index + 2, Len(data)),
                   offset |-> PointerData_new(index, 0, sid)]]

\* StorageInner::split(offset): data.split_at_mut(index), then the rest
\* split_at_mut(1); the slices carry the offsets (0, 0, sid) and
\* (index + 1, 0, sid).
split(offset) ==
    LET sid == get_storage_id(offset)
        index == get_index(offset)
    IN [left |-> [slice |-> SubSeq(data, 1, index),
                  offset |-> PointerData_new(0, 0, sid)],
        cur |-> data[index + 1],
        right |-> [slice |-> SubSeq(data, index + 2, Len(data)),
                   offset |-> PointerData_new(index + 1, 0, sid)]]

None == [some |-> FALSE, value |-> 0]

Some(v) == [some |-> TRUE, value |-> v]

\* Slice::get(&pointer): the slice's base offset is subtracted from the
\* pointer's index; the element there if that falls within the slice.
Slice_get(sl, pointer) ==
    LET index == get_index(pointer) - get_index(sl.offset)
    IN IF index >= 0 /\ index < Len(sl.slice)
       THEN Some(sl.slice[index + 1])
       ELSE None

SplitSlots == MaxSlots + 1

NextSplit ==
    \/ \E v \in Values : Create(v, SplitSlots)
    \/ \E h \in BagToSet(strong) : Drop(h)
    \/ SyncPending(MaxEpoch)

SpecSplit == Init /\ [][NextSplit]_vars

\* C18: split(h) for a handle h of index k returns a left slice holding
\* data[0..k-1] with base offset 0, the element data[k], and a right slice
\* holding data[k+1..] with base offset k+1, which together are the whole
\* array; for a handle p of the storage left.get(p) is Some(data[p.index])
\* iff p.index < k and None otherwise, right.get(p) is Some(data[p.index]) iff
\* p.index > k and None otherwise, so both are None for h itself.
C18_SplitPartitions ==
    \A h \in BagToSet(strong) :
       LET s == split(h)
           k == get_index(h)
       IN /\ Len(s.left.slice) = k
          /\ \A j \in 0..(k - 1) : s.left.slice[j + 1] = data[j + 1]
          /\ get_index(s.left.offset) = 0
          /\ s.cur = data[k + 1]
          /\ Len(s.right.slice) = Len(data) - k - 1
          /\ \A j \in (k + 1)..(Len(data) - 1) : s.right.slice[j - k] = data[j + 1]
          /\ get_index(s.right.offset) = k + 1
          /\ s.left.slice \o <<s.cur>> \o s.right.slice = data
          /\ \A p \in BagToSet(strong) :
                /\ Slice_get(s.left, p) =
                      IF get_index(p) < k THEN Some(data[get_index(p) + 1]) ELSE None
                /\ Slice_get(s.right, p) =
                      IF get_index(p) > k THEN Some(data[get_index(p) + 1]) ELSE None
          /\ Slice_get(s.left, h) = None
          /\ Slice_get(s.right, h) = None

\* Three slots, split at the middle one while a handle to the last one is
\* held: the right slice resolves it and the left slice does not.
C18_Witness ==
    /\ Len(data) = 3
    /\ \E h, p \in BagToSet(strong) :
          /\ get_index(h) = 1
          /\ get_index(p) = 2
          /\ Slice_get(split(h).right, p) = Some(data[3])
          /\ Slice_get(split(h).left, p) = None
          /\ Len(split(h).left.slice) = 1

----------------------------------------------------------------------------
(* Equality and hashing of pointers.                                        *)

\* <PointerData as PartialEq>::eq (derived): the packed words agree, that
\* is, all three lanes do.
PointerData_eq(a, b) ==
    /\ get_index(a) = get_index(b)
    /\ a.epoch = b.epoch
    /\ get_storage_id(a) = get_storage_id(b)

\* <Pointer as PartialEq>::eq: self.data == other.data
Pointer_eq(a, b) == PointerData_eq(a, b)

\* <Pointer as Hash>::hash: self.data.hash(state); what is fed to the hasher.
Pointer_hash(a) == <<get_storage_id(a), a.epoch, get_index(a)>>

\* Pointer::downgrade followed by WeakPointer::upgrade.
downgrade_upgrade(p) ==
    IF UpgradeOk(p) THEN Some(p) ELSE None

\* C19: the strong handles of one slot (clones, handles pinned from an
\* iterator or cursor item, upgraded weak handles) all compare equal and
\* hash equally, and p.downgrade().upgrade() succeeds with a handle equal to
\* p; handles of different slots are unequal; equality is reflexive,
\* symmetric and transitive.
C19_SameComponentEqual ==
    LET H == BagToSet(strong)
    IN /\ \A p, q \in H :
             /\ Pointer_eq(p, q) <=> (get_index(p) = get_index(q))
             /\ Pointer_eq(p, q) => Pointer_hash(p) = Pointer_hash(q)
             /\ Pointer_eq(p, q) => Pointer_eq(q, p)
       /\ \A p \in H :
             /\ Pointer_eq(p, p)
             /\ downgrade_upgrade(p).some
             /\ Pointer_eq(downgrade_upgrade(p).value, p)
       /\ \A p, q, r \in H :
             (Pointer_eq(p, q) /\ Pointer_eq(q, r)) => Pointer_eq(p, r)

----------------------------------------------------------------------------
(* Ordering of pointers, within one storage and across two.                 *)

\* <Pointer as PartialOrd>::partial_cmp.  Its debug assertion compares
\* self's epoch with itself and cannot fail.
partial_cmp(a, b) ==
    IF get_storage_id(a) = get_storage_id(b)
    THEN IF get_index(a) < get_index(b) THEN "Less"
         ELSE IF get_index(a) = get_index(b) THEN "Equal" ELSE "Greater"
    ELSE "None"

\* a < b and a > b, as PartialOrd derives them from partial_cmp.
lt(a, b) == partial_cmp(a, b) = "Less"

gt(a, b) == partial_cmp(a, b) = "Greater"

\* let mut storage2 = Storage::new(): new_impl takes the next value of
\* STORAGE_UID, converted to StorageId; an earlier second storage and its
\* handles are gone by then.
Storage2_new ==
    /\ ~panicked
    /\ STORAGE_UID < MaxStorages
    /\ storage2' = [live |-> TRUE, id |-> STORAGE_UID % StorageIdMod,
                    len |-> 0, strong |-> {}]
    /\ STORAGE_UID' = STORAGE_UID + 1
    /\ UNCHANGED <<inner, journal, handles, debug, walk, panicked, sync_thread,
                   packed, churn>>

\* storage2.create(value) on an empty free list: the handle
\* PointerData::new(len, 0, id) of the second storage.
Storage2_create ==
    /\ ~panicked
    /\ storage2.live
    /\ storage2.len < MaxSlots
    /\ storage2' = [storage2 EXCEPT
          !.len = @ + 1,
          !.strong = @ \cup {PointerData_new(storage2.len, 0, storage2.id)}]
    /\ UNCHANGED <<inner, journal, handles, debug, walk, panicked, sync_thread,
                   STORAGE_UID, packed, churn>>

NextPartialOrd ==
    \/ \E v \in Values : Create(v, MaxSlots)
    \/ \E i \in Slots : PinIter(i)
    \/ Storage2_new
    \/ Storage2_create

SpecPartialOrd == Init /\ [][NextPartialOrd]_vars

\* C20: for two strong handles a, b of the same storage a < b iff
\* a.index < b.index; for a handle a of one storage and a handle b of another
\* partial_cmp is None, so neither a < b nor a > b, and a == b is false.
C20_OrderByIndex ==
    /\ \A a, b \in BagToSet(strong) :
          lt(a, b) <=> (get_index(a) < get_index(b))
    /\ \A a, b \in storage2.strong :
          lt(a, b) <=> (get_index(a) < get_index(b))
    /\ \A a \in BagToSet(strong), b \in storage2.strong :
          /\ partial_cmp(a, b) = "None" /\ partial_cmp(b, a) = "None"
          /\ ~lt(a, b) /\ ~gt(a, b) /\ ~lt(b, a) /\ ~gt(b, a)
          /\ ~Pointer_eq(a, b) /\ ~Pointer_eq(b, a)

----------------------------------------------------------------------------
(* PointerData as the 64-bit word of src/src/bitfield.rs.  A u64 is the     *)
(* tuple of its 64 bits, least significant first, each 0 or 1; the narrower *)
(* unsigned types are such words with their high bits zero.                 *)

WordBits == 64
INDEX_BITS == 40
EPOCH_BITS == 16
STORAGE_ID_BITS == 8

BitPos == 1..WordBits

\* The word whose bit at position k is f[k], as a tuple.
Word(f) == f \o <<>>

\* The u64 of a natural number below 2^31.
U64(n) == Word([k \in BitPos |-> IF k <= 31 THEN (n \div (2 ^ (k - 1))) % 2 ELSE 0])

\* a << n and a >> n
Shl(a, n) == Word([k \in BitPos |-> IF k > n THEN a[k - n] ELSE 0])

Shr(a, n) == Word([k \in BitPos |-> IF k + n <= WordBits THEN a[k + n] ELSE 0])

\* a & b and !a
BitAnd(a, b) == Word([k \in BitPos |-> a[k] * b[k]])

BitNot(a) == Word([k \in BitPos |-> 1 - a[k]])

\* The value of byte j (0 the least significant) of a word.
Byte(a, j) ==
    a[8 * j + 1] + 2 * a[8 * j + 2] + 4 * a[8 * j + 3] + 8 * a[8 * j + 4]
    + 16 * a[8 * j + 5] + 32 * a[8 * j + 6] + 64 * a[8 * j + 7]
    + 128 * a[8 * j + 8]

\* The carry into byte j of a + b.
RECURSIVE CarryInto(_, _, _)
CarryInto(a, b, j) ==
    IF j = 0 THEN 0
    ELSE (Byte(a, j - 1) + Byte(b, j - 1) + CarryInto(a, b, j - 1)) \div 256

\* a + b and a - b, wrapping at the word width: byte by byte with the carry.
WrappingAdd(a, b) ==
    LET x == Word(a)
        y == Word(b)
        S(j) == Byte(x, j) + Byte(y, j) + CarryInto(x, y, j)
        sum == <<S(0), S(1), S(2), S(3), S(4), S(5), S(6), S(7)>>
    IN Word([k \in BitPos |->
                (sum[(k - 1) \div 8 + 1] \div (2 ^ ((k - 1) % 8))) % 2])

WrappingSub(a, b) == WrappingAdd(a, WrappingAdd(BitNot(b), U64(1)))

\* `as T` for an unsigned T of the given width: the low bits are kept.
Truncate(a, width) == Word([k \in BitPos |-> IF k <= width THEN a[k] ELSE 0])

INDEX_MASK == WrappingSub(Shl(U64(1), INDEX_BITS), U64(1))
EPOCH_OFFSET == INDEX_BITS
EPOCH_MASK == Shl(WrappingSub(Shl(U64(1), EPOCH_BITS), U64(1)), EPOCH_OFFSET)
STORAGE_ID_OFFSET == EPOCH_OFFSET + EPOCH_BITS
STORAGE_ID_MASK ==
    Shl(WrappingSub(Shl(U64(1), STORAGE_ID_BITS), U64(1)), STORAGE_ID_OFFSET)

\* debug_assert_eq!(index >> INDEX_BITS, 0)
FitsIndex(index) == Shr(index, INDEX_BITS) = U64(0)

\* PointerData::new on words: index as u64 + (u64::from(epoch) << EPOCH_OFFSET)
\*                            + (u64::from(storage) << STORAGE_ID_OFFSET)
Word_new(index, ep, storage) ==
    WrappingAdd(WrappingAdd(index, Shl(ep, EPOCH_OFFSET)),
                Shl(storage, STORAGE_ID_OFFSET))

\* PointerData::get_index: (self.0 & INDEX_MASK) as Index
Word_get_index(w) == Truncate(BitAnd(w, INDEX_MASK), WordBits)

\* PointerData::get_epoch: ((self.0 & EPOCH_MASK) >> EPOCH_OFFSET) as Epoch
Word_get_epoch(w) == Truncate(Shr(BitAnd(w, EPOCH_MASK), EPOCH_OFFSET), EpochBits)

\* PointerData::get_storage_id
Word_get_storage_id(w) ==
    Truncate(Shr(BitAnd(w, STORAGE_ID_MASK), STORAGE_ID_OFFSET), StorageIdBits)

\* (mutant) with_epoch adds the new epoch without clearing the old one.
Word_with_epoch_NoClear(w, ep) == WrappingAdd(w, Shl(ep, EPOCH_OFFSET))

\* PointerData::with_epoch:
\* (self.0 & !EPOCH_MASK) + (u64::from(epoch) << EPOCH_OFFSET)
Word_with_epoch(w, ep) ==
    WrappingAdd(BitAnd(w, BitNot(EPOCH_MASK)), Shl(ep, EPOCH_OFFSET))

\* The arguments PointerData::new and with_epoch are explored for: indices
\* (usize) up to the last one of the lane and the first one beyond it, the
\* epochs (u16) and storage ids (u8) up to the last of their types.
IndexInputs == {U64(0), U64(1), U64(2 ^ 20 + 5), Shl(U64(1), 39),
                INDEX_MASK, Shl(U64(1), INDEX_BITS)}

EpochInputs == {0, 5, 2 ^ 15, EpochMod - 1}

StorageInputs == {0, 3, StorageIdMod - 1}

\* let pd = PointerData::new(index, epoch, storage)
Pack(index, ep, storage) ==
    /\ ~panicked
    /\ IF debug /\ ~FitsIndex(index)
       THEN panicked' = TRUE /\ UNCHANGED packed
       ELSE /\ packed' = [made |-> TRUE,
                          word |-> Word_new(index, U64(ep), U64(storage)),
                          index |-> index, epoch |-> ep, storage |-> storage,
                          rewritten |-> FALSE]
            /\ UNCHANGED panicked
    /\ UNCHANGED <<inner, journal, handles, debug, walk, process, churn,
                   sync_thread>>

\* let pd = pd.with_epoch(epoch)
Repack(ep) ==
    /\ ~panicked
    /\ packed.made
    /\ packed' = [packed EXCEPT !.word = Word_with_epoch(@, U64(ep)),
                                !.epoch = ep, !.rewritten = TRUE]
    /\ UNCHANGED <<inner, journal, handles, debug, walk, process, churn,
                   panicked, sync_thread>>

NextBitfield ==
    \/ \E i \in IndexInputs, e \in EpochInputs, s \in StorageInputs : Pack(i, e, s)
    \/ \E e \in EpochInputs : Repack(e)

SpecBitfield == Init /\ [][NextBitfield]_vars

\* C21: a word built by PointerData::new from an index, an epoch and a
\* storage id that fit their lanes, and rewritten by with_epoch any number of
\* times, gives back the index, the latest epoch and the storage id from
\* get_index, get_epoch and get_storage_id; with_epoch changes the epoch lane
\* only; the three lanes are 40, 16 and 8 bits, do not overlap and make up the
\* 64-bit word.
C21_BitfieldRoundTrip ==
    /\ (packed.made /\ FitsIndex(packed.index)) =>
          /\ Word_get_index(packed.word) = packed.index
          /\ Word_get_epoch(packed.word) = U64(packed.epoch)
          /\ Word_get_storage_id(packed.word) = U64(packed.storage)
          /\ \A e2 \in EpochInputs :
                LET w2 == Word_with_epoch(packed.word, U64(e2))
                IN /\ Word_get_epoch(w2) = U64(e2)
                   /\ Word_get_index(w2) = packed.index
                   /\ Word_get_storage_id(w2) = U64(packed.storage)
    /\ INDEX_BITS + EPOCH_BITS + STORAGE_ID_BITS = WordBits
    /\ \A k \in BitPos :
          INDEX_MASK[k] + EPOCH_MASK[k] + STORAGE_ID_MASK[k] = 1
    /\ \A k \in BitPos : INDEX_MASK[k] = 1 <=> k <= INDEX_BITS
    /\ \A k \in BitPos :
          EPOCH_MASK[k] = 1 <=> (k > INDEX_BITS /\ k <= INDEX_BITS + EPOCH_BITS)

\* Every lane full: the word of the last index, epoch 5 and the last storage
\* id, its epoch rewritten to the last epoch, is the word of all ones.
C21_Witness ==
    /\ packed.made
    /\ packed.rewritten
    /\ packed.index = INDEX_MASK
    /\ packed.epoch = EpochMod - 1
    /\ packed.storage = StorageIdMod - 1
    /\ \A k \in BitPos : packed.word[k] = 1

----------------------------------------------------------------------------
(* Storage ids.                                                             *)

\* C22: a storage constructed later in the process has an id different from
\* that of the first storage, and every handle carries the id of the storage
\* it came from.
C22_StorageIdUnique ==
    /\ storage2.live => storage2.id # id
    /\ \A h \in BagToSet(strong) \cup weak : get_storage_id(h) = id
    /\ \A h \in storage2.strong : get_storage_id(h) = storage2.id

----------------------------------------------------------------------------
(* WeakPointer::upgrade.                                                    *)

----------------------------------------------------------------------------
(* Program order in the journal.                                            *)

\* The two vectors of Pending that clone and drop push to.
Pending_lists == [add_ref |-> add_ref, sub_ref |-> sub_ref]

\* self.pending.lock().add_ref.push(index)
push_add(p, index) == [p EXCEPT !.add_ref = Append(@, index)]

\* self.pending.lock().sub_ref.push(index)
push_sub(p, index) == [p EXCEPT !.sub_ref = Append(@, index)]

\* C24: the journal records, for a clone and a drop issued by one thread,
\* which of the two was issued first: cloning a held handle h and then
\* dropping a held handle g leaves a journal different from the one that
\* dropping g and then cloning h leaves.
C24_ProgramOrder ==
    \A h, g \in BagToSet(strong) :
       push_sub(push_add(Pending_lists, get_index(h)), get_index(g))
          # push_add(push_sub(Pending_lists, get_index(g)), get_index(h))

\* C24 as amended: the clones of a thread appear in add_ref in program order
\* and its drops in sub_ref in program order (every handle operation appends
\* to the end of its vector and leaves the entries before it as they were,
\* and two pushes to one vector in the two orders leave different vectors),
\* while a clone and a drop in the two orders leave the same journal.
C24_OrderPerList ==
    /\ [][/\ \A h \in BagToSet(strong) :
                /\ Clone(h) =>
                      <<add_ref', sub_ref'>> =
                         <<push_add(Pending_lists, get_index(h)).add_ref, sub_ref>>
                /\ Drop(h) =>
                      <<add_ref', sub_ref'>> =
                         <<add_ref, push_sub(Pending_lists, get_index(h)).sub_ref>>
           /\ ~SyncPending(MaxEpoch) =>
                 /\ IsPrefix(add_ref, add_ref') /\ Len(add_ref') <= Len(add_ref) + 1
                 /\ IsPrefix(sub_ref, sub_ref') /\ Len(sub_ref') <= Len(sub_ref) + 1]_vars
    /\ [](\A h, g \in BagToSet(strong) :
             /\ push_sub(push_add(Pending_lists, get_index(h)), get_index(g))
                   = push_add(push_sub(Pending_lists, get_index(g)), get_index(h))
             /\ get_index(h) # get_index(g) =>
                   /\ push_add(push_add(Pending_lists, get_index(h)), get_index(g))
                         # push_add(push_add(Pending_lists, get_index(g)), get_index(h))
                   /\ push_sub(push_sub(Pending_lists, get_index(h)), get_index(g))
                         # push_sub(push_sub(Pending_lists, get_index(g)), get_index(h)))

\* Two drops of different slots and a clone are journalled: sub_ref holds
\* the drops in the order they were issued, add_ref the clone.
C24_Witness ==
    /\ Len(sub_ref) = 2
    /\ sub_ref[1] = 1
    /\ sub_ref[2] = 0
    /\ Len(add_ref) = 1
    /\ BagCardinality(strong) >= 1

----------------------------------------------------------------------------
(* Conservation of references.                                              *)

\* C25: in every reachable state, for every slot i, meta[i] plus the number
\* of i entries in add_ref minus the number of i entries in sub_ref equals
\* the number of outstanding strong handles to i; every step that hands out
\* a strong handle to i journals one add-ref for i or is the create that sets
\* meta[i] to 1, and every step that takes one away journals one sub-ref.
C25_JournalConservation ==
    /\ [](~panicked => \A i \in SlotsOf(meta) : Net(i) = Outstanding(i))
    /\ [][\A i \in SlotsOf(meta') :
             /\ Outstanding(i)' > Outstanding(i) =>
                   /\ Outstanding(i)' = Outstanding(i) + 1
                   /\ \/ /\ Count(add_ref', i) = Count(add_ref, i) + 1
                         /\ UNCHANGED <<meta, sub_ref>>
                      \/ /\ \E v \in Values : Create(v, MaxSlots)
                         /\ panicked' \/ meta'[i + 1] = 1
                         /\ UNCHANGED <<add_ref, sub_ref>>
             /\ Outstanding(i)' < Outstanding(i) =>
                   /\ Outstanding(i)' = Outstanding(i) - 1
                   /\ Count(sub_ref', i) = Count(sub_ref, i) + 1
                   /\ UNCHANGED <<meta, add_ref>>]_vars

----------------------------------------------------------------------------
(* Lengths of the vectors.                                                  *)

\* C26: in every reachable state data and meta have the same length and the
\* epoch vector is no longer than meta; right after sync_pending the epoch
\* vector is as long as data, and every index that sync_pending drains from
\* add_ref or sub_ref is within bounds of meta and of the padded epoch vector.
C26_VectorLengths ==
    /\ [](Len(data) = Len(meta) /\ Len(epoch) <= Len(meta))
    /\ [][SyncPending(MaxEpoch) =>
             /\ Len(epoch') = Len(data)
             /\ Len(epoch') = Len(data')
             /\ \A k \in 1..Len(add_ref) :
                   add_ref[k] < Len(meta) /\ add_ref[k] < Len(epoch')
             /\ \A k \in 1..Len(sub_ref) :
                   sub_ref[k] < Len(meta) /\ sub_ref[k] < Len(epoch')]_vars

\* A sync has padded the epoch vector to two slots and freed the second one,
\* and a create has since reused it.
C26_Witness ==
    /\ Len(data) = 2
    /\ epoch = <<0, 1>>
    /\ meta = <<1, 1>>
    /\ Synced
    /\ free_list = <<>>
    /\ ~panicked

----------------------------------------------------------------------------
(* Live and vacant slots.                                                   *)

\* C27: after any sync_pending every slot is either live (meta > 0 and not
\* on the free list) or vacant (meta = 0 and on the free list, or meta = 0 and
\* never referenced, as an unpinned from_iter slot is).
C27_LiveOrVacant ==
    [][(SyncPending(MaxEpoch) /\ ~panicked') =>
          \A i \in SlotsOf(meta') :
             \/ meta'[i + 1] > 0 /\ FreeCount(free_list', i) = 0
             \/ meta'[i + 1] = 0 /\ FreeCount(free_list', i) >= 1
             \/ Untouched(i)']_vars

----------------------------------------------------------------------------
(* create and the journal.                                                  *)

\* C28: create leaves add_ref, sub_ref and the epoch vector unchanged, and
\* when it returns the slot of the handle it hands out has meta = 1, with no
\* sync_pending in between.
C28_CreateBypassesJournal ==
    [][\A v \in Values :
          Create(v, MaxSlots) =>
             /\ UNCHANGED <<add_ref, sub_ref, epoch>>
             /\ \/ panicked'
                \/ \E i \in SlotsOf(meta') :
                      /\ meta'[i + 1] = 1
                      /\ data'[i + 1] = v
                      /\ Outstanding(i)' = Outstanding(i) + 1]_vars

\* The first create of a storage has returned and no sync has run yet: meta
\* shows the handle although the epoch vector has never been padded.
C28_Witness ==
    /\ meta = <<1>>
    /\ epoch = <<>>
    /\ Synced
    /\ BagCardinality(strong) = 1
    /\ Outstanding(0) = 1

----------------------------------------------------------------------------
(* Weak handles and the refcounts.                                          *)

\* <WeakPointer as Clone>::clone: the bits and the Arc of the journal are
\* copied; weak holds the distinct bits, so it stays as it is.
WeakClone(w) ==
    /\ ~panicked
    /\ w \in weak
    /\ weak' = weak \cup {w}
    /\ UNCHANGED <<inner, journal, strong, debug, walk, process, packed, churn,
                   panicked, sync_thread>>

NextWeak ==
    \/ \E v \in Values : Create(v, MaxSlots)
    \/ SyncPending(MaxEpoch)
    \/ \E h \in BagToSet(strong) : Drop(h)
    \/ \E h \in BagToSet(strong) : Downgrade(h)
    \/ \E w \in weak : WeakClone(w)
    \/ \E w \in weak : DropWeak(w)
    \/ \E w \in weak : Upgrade(w)

SpecWeak == Init /\ [][NextWeak]_vars

\* C29: downgrade, the clone of a weak handle and the drop of a weak handle
\* push nothing to add_ref or sub_ref and change nothing of the storage, and
\* a sync_pending that drains the drops of the last strong handles of a slot
\* frees the slot however many weak handles to it are outstanding.
C29_WeakNotCounted ==
    [][/\ \A h \in BagToSet(strong) :
             Downgrade(h) => UNCHANGED <<inner, journal, strong>>
       /\ \A w \in weak :
             (WeakClone(w) \/ DropWeak(w)) => UNCHANGED <<inner, journal, strong>>
       /\ SyncPending(MaxEpoch) =>
             \A w \in weak :
                LET i == get_index(w)
                IN (Outstanding(i) = 0 /\ Count(sub_ref, i) > 0) =>
                      (panicked' \/ (meta'[i + 1] = 0 /\ FreeCount(free_list', i) >= 1))]_vars

\* The slot of an outstanding weak handle has been freed: its refcount is 0,
\* it is on the free list with the next epoch, and the weak handle is dead.
C29_Witness ==
    \E w \in weak :
       /\ meta[get_index(w) + 1] = 0
       /\ FreeCount(free_list, get_index(w)) = 1
       /\ Outstanding(get_index(w)) = 0
       /\ Synced
       /\ ~UpgradeOk(w)

----------------------------------------------------------------------------
(* Reading the epoch vector beyond its length.                              *)

\* C30: an index beyond the epoch vector reads as epoch 0; a handle to such
\* a slot carries epoch 0, so a weak handle with its bits upgrades and a pin
\* of its slot gives the same bits; and after the sync_pending that pads the
\* vector over the slot the same still holds of every handle to it.
C30_EpochBeyondVector ==
    /\ [](\A i \in Len(epoch)..MaxSlots : get_epoch_in(epoch, i) = 0)
    /\ [](\A h \in BagToSet(strong) \cup weak :
             get_index(h) >= Len(epoch) =>
                /\ h.epoch = 0
                /\ UpgradeOk(h)
                /\ PointerData_new(get_index(h), get_epoch(get_index(h)), id) = h)
    /\ [][SyncPending(MaxEpoch) =>
             \A h \in BagToSet(strong') :
                get_index(h) >= Len(epoch) =>
                   /\ get_index(h) < Len(epoch')
                   /\ get_epoch(get_index(h))' = get_epoch(get_index(h))
                   /\ UpgradeOk(h)'
                   /\ PointerData_new(get_index(h), get_epoch(get_index(h))', id) = h]_vars

\* A slot created before any sync is still held after the sync that padded
\* the epoch vector over it, and a weak handle taken before that sync still
\* matches: both slots read epoch 0 from the vector itself.
C30_Witness ==
    /\ epoch = <<0, 0>>
    /\ Synced
    /\ free_list = <<>>
    /\ \E w \in weak :
          /\ get_index(w) = 1
          /\ BagIn(w, strong)
          /\ meta[2] = 1
          /\ UpgradeOk(w)

----------------------------------------------------------------------------
(* Refcount arithmetic in sync_pending.                                     *)

\* The sync state once the epoch vector is padded and the add-refs applied.
AfterAdds ==
    DrainAdd([meta |-> meta, epoch |-> PadEpoch(epoch, Len(data)),
              free_list |-> free_list, panicked |-> FALSE], add_ref)

\* Draining q from the sync state st, some `meta[index] -= 1` finds 0.
RECURSIVE SubFindsZero(_, _)
SubFindsZero(st, q) ==
    IF q = <<>> \/ st.panicked THEN FALSE
    ELSE IF Head(q) < Len(st.meta) /\ st.meta[Head(q) + 1] = 0 THEN TRUE
    ELSE SubFindsZero(SubRef(st, Head(q)), Tail(q))

\* C31: in every sync_pending, each sub-ref drained for an index i finds
\* meta[i] >= 1, all add-refs of the batch having been applied before.
C31_NoDecrementOfZero ==
    [][SyncPending(MaxEpoch) => ~SubFindsZero(AfterAdds, sub_ref)]_vars

----------------------------------------------------------------------------
(* The free list holds a slot once.                                         *)

\* C32: the free list never holds two entries with the same slot index, and
\* a create never hands out a handle to a slot that another outstanding
\* handle refers to.
C32_FreeListDistinct ==
    /\ [](\A i \in SlotsOf(meta) : FreeCount(free_list, i) <= 1)
    /\ [][\A v \in Values :
             (Create(v, MaxSlots) /\ ~panicked') =>
                \A i \in SlotsOf(meta') :
                   Outstanding(i)' > Outstanding(i) => Outstanding(i) = 0]_vars

----------------------------------------------------------------------------
(* Every index in use is an index of the data array.                        *)

InBounds(index) == index < Len(data)

\* C33: the data array never shrinks, and every strong handle, weak handle,
\* free-list entry and journal entry has an index below data.len(); meta has
\* one refcount per value.
C33_IndicesInBounds ==
    /\ [][Len(data') >= Len(data)]_vars
    /\ [](/\ Len(meta) = Len(data)
          /\ \A h \in BagToSet(strong) : InBounds(get_index(h))
          /\ \A w \in weak : InBounds(get_index(w))
          /\ \A k \in 1..Len(free_list) : InBounds(get_index(free_list[k]))
          /\ \A k \in 1..Len(add_ref) : InBounds(add_ref[k])
          /\ \A k \in 1..Len(sub_ref) : InBounds(sub_ref[k]))

C33_Witness ==
    /\ Len(data) = MaxSlots
    /\ strong # EmptyBag
    /\ weak # {}
    /\ free_list # <<>>
    /\ add_ref # <<>>
    /\ sub_ref # <<>>

----------------------------------------------------------------------------
(* A second sync_pending right after a first one.                           *)

\* C34: sync_pending is idempotent: when a call has returned, a second call
\* with no handle operation in between finds both journals empty and leaves
\* meta, the free list and the epoch vector as the first call left them.
C34_SyncIdempotent ==
    [][(SyncPending(MaxEpoch) /\ ~panicked') =>
          LET again == SyncResult'
          IN /\ add_ref' = <<>>
             /\ sub_ref' = <<>>
             /\ again.st.meta = meta'
             /\ again.st.free_list = free_list'
             /\ again.st.epoch = epoch'
             /\ ~again.st.panicked]_vars

C34_Witness ==
    /\ add_ref = <<>>
    /\ sub_ref = <<>>
    /\ free_list # <<>>
    /\ strong # EmptyBag
    /\ \E k \in 1..Len(meta) : meta[k] = MaxStrong
    /\ \E k \in 1..Len(epoch) : epoch[k] > 0
    /\ ~panicked

----------------------------------------------------------------------------
(* A handle cloned and dropped many times between two syncs.                *)
(*                                                                          *)
(* The entries such a loop pushes are kept as a run: churn.adds entries of  *)
(* churn.index at the end of add_ref, churn.subs at the end of sub_ref.     *)

\* The lengths of the loops that are explored.
ChurnCounts == {RefCountMod \div 2 - 1, RefCountMod \div 2}

\* for _ in 0..n { drop(h.clone()) }
CloneDropTimes(h, n) ==
    /\ ~panicked
    /\ JournalLock
    /\ BagIn(h, strong)
    /\ RoomForHandle
    /\ churn.adds = 0 \/ churn.index = get_index(h)
    /\ churn.adds + n <= RefCountMod
    /\ churn' = [index |-> get_index(h), adds |-> churn.adds + n,
                 subs |-> churn.subs + n]
    /\ UNCHANGED <<inner, journal, handles, debug, walk, process, packed,
                   panicked, sync_thread>>

\* `self.inner.meta[index] += 1` for n consecutive entries of add_ref: the
\* increments that stay below the largest RefCount are taken in one step, the
\* one that meets it is AddRef.
RECURSIVE AddRefTimes(_, _, _)
AddRefTimes(st, index, n) ==
    IF n = 0 \/ st.panicked THEN st
    ELSE IF index >= Len(st.meta) THEN AddRef(st, index)
    ELSE LET fit == RefCountMod - 1 - st.meta[index + 1]
             k == IF n < fit THEN n ELSE fit
         IN IF k > 0
            THEN AddRefTimes([st EXCEPT !.meta[index + 1] = @ + k], index, n - k)
            ELSE AddRefTimes(AddRef(st, index), index, n - 1)

\* The body of the sub-ref loop for n consecutive entries of sub_ref: the
\* decrements that leave the refcount above 0 are taken in one step, the one
\* that reaches 0, or finds it, is SubRef.
RECURSIVE SubRefTimes(_, _, _)
SubRefTimes(st, index, n) ==
    IF n = 0 \/ st.panicked THEN st
    ELSE IF index >= Len(st.meta) THEN SubRef(st, index)
    ELSE LET fit == st.meta[index + 1] - 1
             k == IF n < fit THEN n ELSE fit
         IN IF k > 0
            THEN SubRefTimes([st EXCEPT !.meta[index + 1] = @ - k], index, n - k)
            ELSE SubRefTimes(SubRef(st, index), index, n - 1)

\* The body of sync_pending applied to the journal with its run.
SyncChurnedResult ==
    LET st0 == [meta |-> meta, epoch |-> PadEpoch(epoch, Len(data)),
                free_list |-> free_list, panicked |-> FALSE]
        st1 == AddRefTimes(DrainAdd(st0, add_ref), churn.index, churn.adds)
    IN [st |-> SubRefTimes(DrainSub(st1, sub_ref), churn.index, churn.subs),
        add_panicked |-> st1.panicked]

\* Storage::sync_pending, from taking the mutex to releasing it.
SyncChurned(cap) ==
    /\ OwnerIdle
    /\ JournalLock
    /\ LET r == SyncChurnedResult
       IN /\ Explored(r.st, cap)
          /\ meta' = r.st.meta
          /\ epoch' = r.st.epoch
          /\ free_list' = r.st.free_list
          /\ panicked' = r.st.panicked
          /\ add_ref' = <<>>
          /\ sub_ref' = IF r.add_panicked THEN sub_ref ELSE <<>>
          /\ churn' = IF r.add_panicked THEN [churn EXCEPT !.adds = 0]
                      ELSE NoChurn
    /\ UNCHANGED <<data, handles, debug, walk, process, packed, sync_thread>>

NextChurn ==
    \/ \E v \in Values : Create(v, MaxSlots)
    \/ \E h \in BagToSet(strong) : churn.adds = 0 /\ Clone(h)
    \/ \E h \in BagToSet(strong) : churn.adds = 0 /\ Drop(h)
    \/ \E h \in BagToSet(strong), n \in ChurnCounts : CloneDropTimes(h, n)
    \/ SyncChurned(MaxEpoch)

SpecChurn == Init /\ [][NextChurn]_vars

\* The refcount of slot i once every add-ref of the batch is applied, as a
\* number without a width.
AddsTotal(i) ==
    meta[i + 1] + Count(add_ref, i) + (IF churn.index = i THEN churn.adds ELSE 0)

\* C35: with at most MaxStrong strong handles outstanding at any time, the
\* add-refs a sync_pending applies before the sub-refs never take meta[i]
\* out of the RefCount range, however often a handle was cloned and dropped
\* since the last sync; the sync does not panic.
C35_AddsStayInRange ==
    [][SyncChurned(MaxEpoch) =>
          /\ \A i \in SlotsOf(meta) : AddsTotal(i) < RefCountMod
          /\ ~panicked']_vars

----------------------------------------------------------------------------
(* The position of a cursor.                                                *)

----------------------------------------------------------------------------
(* Ordering against equality.                                               *)

\* C37: for any two outstanding strong handles a and b of the storage,
\* a.partial_cmp(b) is Some(Equal) exactly when a == b; two handles with the
\* same index carry the same epoch.
C37_OrderConsistentWithEq ==
    \A a, b \in BagToSet(strong) :
       /\ (partial_cmp(a, b) = "Equal") <=> Pointer_eq(a, b)
       /\ get_index(a) = get_index(b) => a.epoch = b.epoch

----------------------------------------------------------------------------
(* Looking around from a cursor item (src/src/cursor.rs).  A CursorItem     *)
(* holds the whole data array as its slice and the PointerData of the slot  *)
(* it stands for.                                                           *)

\* Ok(unsafe { self.slice.get_unchecked(id) }): a reference to slice[id]
Ok(slice, index) == [kind |-> "Ok", index |-> index, value |-> slice[index + 1]]

\* Err(NotFoundError)
NotFoundError == [kind |-> "Err", index |-> -1, value |-> -1]

\* A failed debug assertion.
Panic == [kind |-> "Panic", index |-> -1, value |-> -1]

\* get_unchecked beyond the slice: undefined behaviour.
Undefined == [kind |-> "Undefined", index |-> -1, value |-> -1]

\* The CursorItem that Cursor::next has returned last.
CursorItem ==
    [slice |-> data, data |-> PointerData_new(cursor.item, 0, id)]

\* CursorItem::look_back(&self, pointer)
look_back(self, pointer) ==
    IF debug /\ get_storage_id(pointer) # get_storage_id(self.data) THEN Panic
    ELSE LET index == get_index(pointer)
         IN IF index < get_index(self.data)
            THEN IF index < Len(self.slice) THEN Ok(self.slice, index)
                 ELSE Undefined
            ELSE NotFoundError

\* CursorItem::look_back_mut(&mut self, pointer)
look_back_mut(self, pointer) ==
    IF debug /\ get_storage_id(pointer) # get_storage_id(self.data) THEN Panic
    ELSE LET index == get_index(pointer)
         IN IF index < get_index(self.data)
            THEN IF index < Len(self.slice) THEN Ok(self.slice, index)
                 ELSE Undefined
            ELSE NotFoundError

\* (mutant) look_ahead also finds the current item.
look_ahead_Inclusive(self, pointer) ==
    IF debug /\ get_storage_id(pointer) # get_storage_id(self.data) THEN Panic
    ELSE LET index == get_index(pointer)
         IN IF index >= get_index(self.data)
            THEN IF index < Len(self.slice) THEN Ok(self.slice, index)
                 ELSE IF debug THEN Panic ELSE Undefined
            ELSE NotFoundError

\* CursorItem::look_ahead(&self, pointer)
look_ahead(self, pointer) ==
    IF debug /\ get_storage_id(pointer) # get_storage_id(self.data) THEN Panic
    ELSE LET index == get_index(pointer)
         IN IF index > get_index(self.data)
            THEN IF index < Len(self.slice) THEN Ok(self.slice, index)
                 ELSE IF debug THEN Panic ELSE Undefined
            ELSE NotFoundError

\* CursorItem::look_ahead_mut(&mut self, pointer)
look_ahead_mut(self, pointer) ==
    IF debug /\ get_storage_id(pointer) # get_storage_id(self.data) THEN Panic
    ELSE LET index == get_index(pointer)
         IN IF index > get_index(self.data)
            THEN IF index < Len(self.slice) THEN Ok(self.slice, index)
                 ELSE IF debug THEN Panic ELSE Undefined
            ELSE NotFoundError

\* C38: for the item a cursor stands on, at index k, and a strong handle p of
\* the storage, look_back(p) and look_back_mut(p) return the element at
\* p.index if p.index < k and NotFoundError otherwise; look_ahead(p) and
\* look_ahead_mut(p) return the element at p.index if p.index > k and
\* NotFoundError otherwise; all four return NotFoundError for a handle to
\* the current item.
C38_LookBackAndAhead ==
    (cursor.live /\ cursor.item # -1) =>
       \A p \in BagToSet(strong) :
          LET k == cursor.item
              element == [kind |-> "Ok", index |-> get_index(p),
                          value |-> data[get_index(p) + 1]]
              back == IF get_index(p) < k THEN element ELSE NotFoundError
              ahead == IF get_index(p) > k THEN element ELSE NotFoundError
          IN /\ get_index(p) < Len(data)
             /\ look_back(CursorItem, p) = back
             /\ look_back_mut(CursorItem, p) = back
             /\ look_ahead(CursorItem, p) = ahead
             /\ look_ahead_mut(CursorItem, p) = ahead
             /\ get_index(p) = k =>
                   /\ look_back(CursorItem, p) = NotFoundError
                   /\ look_back_mut(CursorItem, p) = NotFoundError
                   /\ look_ahead(CursorItem, p) = NotFoundError
                   /\ look_ahead_mut(CursorItem, p) = NotFoundError

C38_Witness ==
    /\ cursor.live
    /\ cursor.item = 2
    /\ \E p \in BagToSet(strong) :
          get_index(p) = 1 /\ look_back(CursorItem, p).kind = "Ok"
    /\ \E p \in BagToSet(strong) :
          get_index(p) = 2 /\ look_ahead_mut(CursorItem, p) = NotFoundError
    /\ \E p \in BagToSet(strong) :
          get_index(p) = 3 /\ look_ahead(CursorItem, p).kind = "Ok"

====
